---------------------------- MODULE Spec2Model ----------------------------
(***************************************************************************)
(* Zpng: lossless image codec (src/zpng.cpp).                              *)
(*                                                                         *)
(* The filter layer (the PackAndFilter and UnpackAndUnfilter families) and *)
(* the codec facade (ZPNG_CompressVideoToBuffer, ZPNG_DecompressVideo) are *)
(* modelled byte for byte.  The entropy coder (zstd) is external:          *)
(* a frame carries the bytes it was made from, its size is chosen by the   *)
(* coder within its documented bound, and it fails when the destination    *)
(* is smaller than the size it needs.                                      *)
(*                                                                         *)
(* A pointer is a sequence of length 0 (nullptr) or 1 (the pointee).       *)
(* Zero-initialised memory (calloc) is the sequence of its written prefix; *)
(* bytes beyond the prefix, up to the capacity, read as 0.                 *)
(***************************************************************************)
EXTENDS Integers, Sequences, FiniteSets, TLC

(***************************************************************************)
(* Program constants                                                       *)
(***************************************************************************)
ZPNG_HEADER_MAGIC == 64504
ZPNG_VIDEO_HEADER_MAGIC == 63739
ZPNG_HEADER_OVERHEAD_BYTES == 8
kOverflowLimit == 1000
kPackingSlack == 1000
kEscape == 128
kMaxPixelBytes == 8

(***************************************************************************)
(* Machine arithmetic                                                      *)
(***************************************************************************)
\* `unsigned` quantities (pixelCount, byteCount, sizes) are 32 bits wide in
\* the program.  Every such quantity of the model stays below 2^31 for the
\* images the model encodes, so no reduction modulo 2^32 takes place; TLC
\* stops with an overflow error should one exceed that range.

\* uint8_t arithmetic: the value is reduced modulo 256.
U8(x) == ((x % 256) + 256) % 256

\* (uint16_t) cast.
U16(x) == x % 65536

\* The two bytes of a uint16_t field as stored in the header struct.
StoreU16(x) == << x % 256, (x \div 256) % 256 >>

\* A uint16_t field read back from the header struct.
LoadU16(b, off) == b[off] + 256 * b[off + 1]

\* calloc'ed memory read at a 1-based offset: bytes not yet written are 0.
MemRead(p, i) == IF i <= Len(p) THEN p[i] ELSE 0

\* The first n bytes of calloc'ed memory whose written prefix is p.
MemPrefix(p, n) == [i \in 1..n |-> MemRead(p, i)]

\* memory p after the bytes of q were stored from its start.
Overwrite(p, q) ==
    [i \in 1..(IF Len(p) > Len(q) THEN Len(p) ELSE Len(q)) |->
        IF i <= Len(q) THEN q[i] ELSE p[i]]

(***************************************************************************)
(* Descriptor geometry                                                     *)
(***************************************************************************)
PixelCount(d) == d.WidthPixels * d.HeightPixels

PixelBytes(d) ==
    IF d.BytesPerChannel > 8 THEN d.Channels
    ELSE d.BytesPerChannel * d.Channels

ByteCount(d) == PixelBytes(d) * PixelCount(d)

(***************************************************************************)
(* Intra filter, generic N channel: PackAndFilter<kChannels>               *)
(***************************************************************************)
\* Byte k (1-based) of the interleaved stream is channel (k-1) % kChannels
\* of pixel x = ((k-1) \div kChannels) % width of its row; prev[] holds the
\* input of the pixel to the left and is reset to 0 at each row start.
PackAndFilter(kChannels, d) ==
    LET n == d.HeightPixels * d.WidthPixels * kChannels
        input == d.Data
        x(k) == ((k - 1) \div kChannels) % d.WidthPixels
        prev(k) == IF x(k) = 0 THEN 0 ELSE input[k - kChannels]
    IN  [k \in 1..n |-> U8(input[k] - prev(k))]

UnpackAndUnfilter(kChannels, input, d) ==
    LET n == d.HeightPixels * d.WidthPixels * kChannels
        x(k) == ((k - 1) \div kChannels) % d.WidthPixels
        a[k \in 1..n] ==
            IF x(k) = 0 THEN U8(MemRead(input, k) + 0)
            ELSE U8(MemRead(input, k) + a[k - kChannels])
    IN  [k \in 1..n |-> a[k]]

(***************************************************************************)
(* Intra filter, RGB / RGBA specialisations: PackAndFilter<3>, <4>         *)
(***************************************************************************)
\* Pixel p (0-based) of the image; c is the channel (0-based).
PackAndFilterRGB(kChannels, d) ==
    LET planeBytes == d.WidthPixels * d.HeightPixels
        input == d.Data
        in(p, c) == input[p * kChannels + c + 1]
        prev(p, c) == IF p % d.WidthPixels = 0 THEN 0 ELSE in(p - 1, c)
        r(p) == U8(in(p, 0) - prev(p, 0))
        g(p) == U8(in(p, 1) - prev(p, 1))
        b(p) == U8(in(p, 2) - prev(p, 2))
        al(p) == U8(in(p, 3) - prev(p, 3))
        y(p) == b(p)
        u(p) == U8(g(p) - b(p))
        v(p) == U8(g(p) - r(p))
    IN  [k \in 1..(planeBytes * kChannels) |->
            LET plane == (k - 1) \div planeBytes
                p == (k - 1) % planeBytes
            IN  CASE plane = 0 -> y(p)
                  [] plane = 1 -> u(p)
                  [] plane = 2 -> v(p)
                  [] OTHER -> al(p)]

UnpackAndUnfilterRGB(kChannels, input, d) ==
    LET planeBytes == d.WidthPixels * d.HeightPixels
        y(p) == MemRead(input, p + 1)
        u(p) == MemRead(input, planeBytes + p + 1)
        v(p) == MemRead(input, planeBytes * 2 + p + 1)
        al(p) == MemRead(input, planeBytes * 3 + p + 1)
        B(p) == y(p)
        G(p) == U8(u(p) + B(p))
        delta(p, c) ==
            CASE c = 0 -> U8(G(p) - v(p))
              [] c = 1 -> G(p)
              [] c = 2 -> B(p)
              [] OTHER -> al(p)
        px[k \in 1..(planeBytes * kChannels)] ==
            LET p == (k - 1) \div kChannels
                c == (k - 1) % kChannels
            IN  IF p % d.WidthPixels = 0 THEN U8(delta(p, c) + 0)
                ELSE U8(delta(p, c) + px[k - kChannels])
    IN  [k \in 1..(planeBytes * kChannels) |-> px[k]]

(***************************************************************************)
(* Intra filter, Bayer: PackAndFilterXGGY / UnpackAndUnfilterXGGY          *)
(***************************************************************************)
\* The image is read as width x height single bytes, two per step.  Step j
\* of row `row` reads input bytes row*width + 2j and row*width + 2j + 1.
\* Even rows store (r, g), odd rows store (g, b).  The model covers even
\* width and height, where every row has width/2 steps.
PackAndFilterXGGY(d) ==
    LET width == d.WidthPixels
        height == d.HeightPixels
        input == d.Data
        half == width \div 2
        planeBytes == (width * height) \div 4
        in(row, j, c) == input[row * width + 2 * j + c + 1]
        prev(row, j, c) == IF j = 0 THEN 0 ELSE in(row, j - 1, c)
        dl(row, j, c) == U8(in(row, j, c) - prev(row, j, c))
    IN  [k \in 1..(planeBytes * 4) |->
            IF k <= planeBytes
            THEN \* output_r: first byte of each step of the even rows
                 LET q == k - 1
                 IN  dl(2 * (q \div half), q % half, 0)
            ELSE IF k <= planeBytes * 2
            THEN \* output_b: second byte of each step of the odd rows
                 LET q == k - 1 - planeBytes
                 IN  dl(2 * (q \div half) + 1, q % half, 1)
            ELSE \* output_g: g of the even row, then g of the odd row
                 LET q == k - 1 - planeBytes * 2
                     row == q \div half
                 IN  dl(row, q % half, IF row % 2 = 0 THEN 1 ELSE 0)]

UnpackAndUnfilterXGGY(input, d) ==
    LET width == d.WidthPixels
        height == d.HeightPixels
        half == width \div 2
        planeBytes == (width * height) \div 4
        input_r(q) == MemRead(input, q + 1)
        input_b(q) == MemRead(input, planeBytes + q + 1)
        input_g(q) == MemRead(input, planeBytes * 2 + q + 1)
        delta(row, j, c) ==
            IF row % 2 = 0
            THEN IF c = 0 THEN input_r((row \div 2) * half + j)
                 ELSE input_g(row * half + j)
            ELSE IF c = 0 THEN input_g(row * half + j)
                 ELSE input_b((row \div 2) * half + j)
        out[k \in 1..(width * height)] ==
            LET row == (k - 1) \div width
                j == ((k - 1) % width) \div 2
                c == (k - 1) % 2
            IN  IF j = 0 THEN U8(delta(row, j, c) + 0)
                ELSE U8(delta(row, j, c) + out[k - 2])
    IN  [k \in 1..(width * height) |-> out[k]]


(***************************************************************************)
(* Inter filter: PackAndFilterVideo / UnpackAndUnfilterVideo               *)
(***************************************************************************)
\* Mutant of PackVideoStep: a delta of -128 counts as in range and is
\* stored as the byte it is, 0x80.
PackVideoStep_Range128(ref, input, k, st) ==
    LET diff == input[k] - ref[k]
    IN  IF diff > 127 \/ diff < -128
        THEN IF st.overflowCount = kOverflowLimit
             THEN [st EXCEPT !.saturated = TRUE]
             ELSE [st EXCEPT !.main = Append(@, kEscape),
                             !.overflow = Append(@, input[k]),
                             !.overflowCount = @ + 1]
        ELSE [st EXCEPT !.main = Append(@, U8(diff))]

\* Mutant of PackVideoStep: the fallback is taken by the out-of-range delta
\* that would bring the count to the limit.
PackVideoStep_FallbackOnReach(ref, input, k, st) ==
    LET diff == input[k] - ref[k]
    IN  IF diff > 127 \/ diff < -127
        THEN IF st.overflowCount + 1 = kOverflowLimit
             THEN [st EXCEPT !.saturated = TRUE]
             ELSE [st EXCEPT !.main = Append(@, kEscape),
                             !.overflow = Append(@, input[k]),
                             !.overflowCount = @ + 1]
        ELSE [st EXCEPT !.main = Append(@, U8(diff))]

\* One iteration of the channel loop at flat offset k (1-based): output,
\* input and ref advance together, so output[i] is byte k of the main
\* region.  st.main is the main region written so far, st.overflow the
\* literals stored behind it, st.saturated is set when the loop is left
\* through the fallback.
PackVideoStep(ref, input, k, st) ==
    LET diff == input[k] - ref[k]
    IN  IF diff > 127 \/ diff < -127
        THEN IF st.overflowCount = kOverflowLimit
             THEN [st EXCEPT !.saturated = TRUE]
             ELSE [st EXCEPT !.main = Append(@, kEscape),
                             !.overflow = Append(@, input[k]),
                             !.overflowCount = @ + 1]
        ELSE [st EXCEPT !.main = Append(@, U8(diff))]

\* The iterations lo..hi in increasing order, left as soon as the fallback
\* is taken (the range is halved only to keep the evaluation shallow).
RECURSIVE PackVideoLoop(_, _, _, _, _)
PackVideoLoop(ref, input, lo, hi, st) ==
    IF lo > hi \/ st.saturated THEN st
    ELSE IF lo = hi THEN PackVideoStep(ref, input, lo, st)
    ELSE LET mid == (lo + hi) \div 2
         IN  PackVideoLoop(ref, input, mid + 1, hi,
                PackVideoLoop(ref, input, lo, mid, st))

\* Returns the int result, the packing memory as written and the number of
\* stores made through `overflow` (the i-th of them at offset n + i - 1).
\* On the fallback the Bayer filter stores over the start of the memory,
\* which still holds the deltas and literals written before.
PackAndFilterVideo(kChannels, ref, d) ==
    LET n == d.HeightPixels * d.WidthPixels * kChannels
        st == PackVideoLoop(ref.Data, d.Data, 1, n,
                [main |-> << >>, overflow |-> << >>,
                 overflowCount |-> 0, saturated |-> FALSE])
        written == MemPrefix(st.main, n) \o st.overflow
    IN  IF st.saturated
        THEN [ret |-> -1, overflowWrites |-> st.overflowCount,
              packing |-> Overwrite(written, PackAndFilterXGGY(d))]
        ELSE [ret |-> st.overflowCount, overflowWrites |-> st.overflowCount,
              packing |-> written]

\* One iteration of the channel loop at flat offset k.  input is the
\* packing memory of capacity cap, n the offset of the overflow region; a
\* read at an offset beyond cap is outside the allocation and yields the
\* byte `wild`.
UnpackVideoStep(ref, input, cap, wild, n, k, st) ==
    IF MemRead(input, k) = kEscape
    THEN LET off == n + st.overflowReads + 1
             lit == IF off <= cap THEN MemRead(input, off) ELSE wild
         IN  [out |-> Append(st.out, lit),
              overflowReads |-> st.overflowReads + 1]
    ELSE [st EXCEPT !.out = Append(@, U8(ref[k] + MemRead(input, k)))]

\* The iterations lo..hi in increasing order; iteration k stores byte k of
\* the output, so the loop is over once hi bytes are out.
RECURSIVE UnpackVideoLoop(_, _, _, _, _, _, _, _)
UnpackVideoLoop(ref, input, cap, wild, n, lo, hi, st) ==
    IF lo > hi \/ Len(st.out) >= hi THEN st
    ELSE IF lo = hi THEN UnpackVideoStep(ref, input, cap, wild, n, lo, st)
    ELSE LET mid == (lo + hi) \div 2
         IN  UnpackVideoLoop(ref, input, cap, wild, n, mid + 1, hi,
                UnpackVideoLoop(ref, input, cap, wild, n, lo, mid, st))

UnpackAndUnfilterVideo(kChannels, ref, input, cap, wild, d) ==
    LET n == d.HeightPixels * d.WidthPixels * kChannels
    IN  UnpackVideoLoop(ref.Data, input, cap, wild, n, 1, n,
            [out |-> << >>, overflowReads |-> 0])

(***************************************************************************)
(* Entropy coder (zstd), external                                          *)
(***************************************************************************)
\* Upper bound of the compressed size of n source bytes.
ZSTD_compressBound(n) ==
    n + (n \div 256) + (IF n < 131072 THEN (131072 - n) \div 2048 ELSE 0)

\* The size of the frame made from src: its upper bound when src is
\* incompressible, one byte at best.
CompressedSize(src, incompressible) ==
    IF incompressible THEN ZSTD_compressBound(Len(src)) ELSE 1

\* A frame made from src; an error when it does not fit the destination.
ZSTD_compress(dstCapacity, src, incompressible) ==
    LET csize == CompressedSize(src, incompressible)
    IN  IF csize > dstCapacity
        THEN [isError |-> TRUE, result |-> 0, frame |-> << >>]
        ELSE [isError |-> FALSE, result |-> csize,
              frame |-> << [size |-> csize, content |-> src] >>]

\* frame is a sequence of at most one well-formed frame; anything else is
\* rejected, and so is a frame that regenerates more than dstCapacity.
ZSTD_decompress(dstCapacity, frame, srcSize) ==
    IF Len(frame) = 0 \/ frame[1].size # srcSize
       \/ Len(frame[1].content) > dstCapacity
    THEN [isError |-> TRUE, result |-> 0, dst |-> << >>]
    ELSE [isError |-> FALSE, result |-> Len(frame[1].content),
          dst |-> frame[1].content]

(***************************************************************************)
(* Filter dispatch                                                         *)
(***************************************************************************)
\* Pass 1 of ZPNG_CompressVideoToBuffer: overflowCount, the packing memory
\* and the number of stores to the overflow region.
PackDispatch(refData, d) ==
    IF Len(refData) > 0
    THEN IF PixelBytes(d) \in 1..8
         THEN LET r == PackAndFilterVideo(PixelBytes(d), refData[1], d)
              IN  [overflowCount |-> r.ret, packing |-> r.packing,
                   overflowWrites |-> r.overflowWrites]
         ELSE [overflowCount |-> 0, packing |-> << >>, overflowWrites |-> 0]
    ELSE [overflowCount |-> 0, overflowWrites |-> 0,
          packing |->
            IF d.BytesPerChannel > 8 THEN PackAndFilterXGGY(d)
            ELSE CASE PixelBytes(d) = 3 -> PackAndFilterRGB(3, d)
                   [] PixelBytes(d) = 4 -> PackAndFilterRGB(4, d)
                   [] PixelBytes(d) \in {1, 2, 5, 6, 7, 8} ->
                        PackAndFilter(PixelBytes(d), d)
                   [] OTHER -> << >>]

\* Stage 2 of ZPNG_DecompressVideo: the bytes stored to the output buffer
\* (calloc'ed, byteCount bytes) and the number of overflow literals read.
UnpackDispatch(refData, packing, cap, wild, d) ==
    IF Len(refData) > 0 /\ d.IsIFrame = 0
    THEN IF PixelBytes(d) \in 1..8
         THEN UnpackAndUnfilterVideo(PixelBytes(d), refData[1], packing,
                                     cap, wild, d)
         ELSE [out |-> << >>, overflowReads |-> 0]
    ELSE [overflowReads |-> 0,
          out |->
            IF d.BytesPerChannel > 8 THEN UnpackAndUnfilterXGGY(packing, d)
            ELSE CASE PixelBytes(d) = 3 -> UnpackAndUnfilterRGB(3, packing, d)
                   [] PixelBytes(d) = 4 -> UnpackAndUnfilterRGB(4, packing, d)
                   [] PixelBytes(d) \in {1, 2, 5, 6, 7, 8} ->
                        UnpackAndUnfilter(PixelBytes(d), packing, d)
                   [] OTHER -> << >>]


(***************************************************************************)
(* Codec facade: encode                                                    *)
(***************************************************************************)
\* Mutant of ZPNG_MaximumBufferSize: neither the header nor the overflow
\* slack is counted.
ZPNG_MaximumBufferSize_NoOverhead(d) ==
    LET pixelCount == d.WidthPixels * d.HeightPixels
        pixelBytes == IF d.BytesPerChannel > 8 THEN d.Channels
                      ELSE d.BytesPerChannel * d.Channels
    IN  ZSTD_compressBound(pixelBytes * pixelCount)

ZPNG_MaximumBufferSize(d) ==
    LET pixelCount == d.WidthPixels * d.HeightPixels
        pixelBytes == IF d.BytesPerChannel > 8 THEN d.Channels
                      ELSE d.BytesPerChannel * d.Channels
        byteCount == pixelBytes * pixelCount + kPackingSlack
        maxOutputBytes == ZSTD_compressBound(byteCount)
    IN  ZPNG_HEADER_OVERHEAD_BYTES + maxOutputBytes

\* Mutant of HeaderMagic: the result of the inter filter is not looked at.
HeaderMagic_IgnoresFallback(refData, overflowCount) ==
    IF Len(refData) > 0 THEN ZPNG_VIDEO_HEADER_MAGIC ELSE ZPNG_HEADER_MAGIC

\* The magic stored by the header write.
HeaderMagic(refData, overflowCount) ==
    IF Len(refData) > 0 /\ overflowCount >= 0
    THEN ZPNG_VIDEO_HEADER_MAGIC ELSE ZPNG_HEADER_MAGIC

\* The 8 bytes of struct ZPNG_Header as stored at the start of output.
WriteHeader(magic, d) ==
    StoreU16(magic) \o StoreU16(U16(d.WidthPixels))
        \o StoreU16(U16(d.HeightPixels))
        \o << d.Channels % 256, d.BytesPerChannel % 256 >>

\* The locals and outputs of a call before anything has happened.
\*   packing: "null" | "live" | "freed";  output: "null" | "caller" | "codec"
\*   bufferOutput.Data: "null" | "caller" | "codec"
\*   packingBytes: the size of the packing allocation; overflowWrites: the
\*   stores of the inter filter behind the main region; dstCapacity,
\*   srcSize: the capacity and the source length handed to the entropy
\*   coder (0 until it is called)
EncodeStart(bufferOutput, dictionary) ==
    [path |-> "start", ret |-> 0, bufferOutput |-> bufferOutput,
     header |-> << >>, frame |-> << >>, overflowCount |-> 0,
     dictionary |-> dictionary, packing |-> "null", packingFrees |-> 0,
     output |-> "null", outputFrees |-> 0,
     packingBytes |-> 0, overflowWrites |-> 0,
     dstCapacity |-> 0, srcSize |-> 0]

\* The code at label ReturnResult of ZPNG_CompressVideoToBuffer.
EncodeReturnResult(r, path) ==
    [r EXCEPT !.path = path,
              !.outputFrees = IF r.bufferOutput.Data # r.output
                                 /\ r.output # "null"
                              THEN @ + 1 ELSE @,
              !.packingFrees = IF r.packing = "live" THEN @ + 1 ELSE @,
              !.packing = IF @ = "live" THEN "freed" ELSE @,
              !.ret = 0]

\* packingAlloc, outputAlloc: whether the calloc succeeds; incompressible:
\* how the entropy coder fares on the packed bytes.
ZPNG_CompressVideoToBuffer(refData, imageData, bufferOutput, context, dictionary, packingAlloc, outputAlloc, incompressible) ==
    LET pixelBytes == PixelBytes(imageData)
        byteCount == ByteCount(imageData)
        r0 == EncodeStart(bufferOutput, dictionary)
        r1 == [r0 EXCEPT !.packing = IF packingAlloc THEN "live" ELSE "null",
                         !.packingBytes = IF packingAlloc
                                          THEN byteCount + kPackingSlack ELSE 0]
        maxOutputBytes == ZSTD_compressBound(byteCount)
        r2 == [r1 EXCEPT !.output =
                  IF bufferOutput.Bytes = 0
                  THEN IF outputAlloc THEN "codec" ELSE "null"
                  ELSE bufferOutput.Data]
        pass1 == PackDispatch(refData, imageData)
        overflowCount == pass1.overflowCount
        srcSize == byteCount + (IF overflowCount >= 0 THEN overflowCount ELSE 0)
        z == ZSTD_compress(maxOutputBytes, MemPrefix(pass1.packing, srcSize),
                           incompressible)
        r3 == [r2 EXCEPT !.overflowCount = overflowCount,
                         !.overflowWrites = pass1.overflowWrites,
                         !.dstCapacity = maxOutputBytes,
                         !.srcSize = srcSize,
                         !.dictionary = IF context /\ Len(dictionary) = 0
                                        THEN << "cdict" >> ELSE @]
    IN  IF pixelBytes > kMaxPixelBytes
        THEN [r0 EXCEPT !.path = "format", !.ret = 0]
        ELSE IF r1.packing = "null"
        THEN EncodeReturnResult(r1, "nomem")
        ELSE IF bufferOutput.Bytes # 0
                /\ bufferOutput.Bytes < ZPNG_HEADER_OVERHEAD_BYTES + maxOutputBytes
        THEN [r1 EXCEPT !.path = "toosmall", !.ret = 0]
        ELSE IF r2.output = "null"
        THEN EncodeReturnResult(r2, "nomem")
        ELSE IF z.isError
        THEN EncodeReturnResult(r3, "entropy")
        ELSE EncodeReturnResult(
                [r3 EXCEPT !.header = WriteHeader(
                                HeaderMagic(refData, overflowCount), imageData),
                           !.frame = z.frame,
                           !.bufferOutput =
                                [Data |-> r3.output,
                                 Bytes |-> ZPNG_HEADER_OVERHEAD_BYTES + z.result]],
                "ok")

(***************************************************************************)
(* Codec facade: decode                                                    *)
(***************************************************************************)
\* Mutant of MagicAccepted: the video magic passes without a reference.
MagicAccepted_NoReferenceTest(refData, magic) ==
    magic = ZPNG_HEADER_MAGIC \/ magic = ZPNG_VIDEO_HEADER_MAGIC

\* The magic test of ZPNG_DecompressVideo: TRUE when decoding goes on.
MagicAccepted(refData, magic) ==
    IF Len(refData) = 0
    THEN magic = ZPNG_HEADER_MAGIC
    ELSE magic = ZPNG_HEADER_MAGIC \/ magic = ZPNG_VIDEO_HEADER_MAGIC

\* imageData.IsIFrame after the magic test.
IsIFrameAfterMagic(refData, magic) ==
    IF Len(refData) > 0 /\ magic # ZPNG_HEADER_MAGIC
       /\ magic = ZPNG_VIDEO_HEADER_MAGIC
    THEN 0 ELSE 1

\* imageData and the locals as initialised at the top of the function.
\*   Buffer.Data: << >> (nullptr) or << bytes >>
DecodeStart ==
    [path |-> "start",
     imageData |-> [Buffer |-> [Data |-> << >>, Bytes |-> 0],
                    BytesPerChannel |-> 0, Channels |-> 0,
                    HeightPixels |-> 0, StrideBytes |-> 0,
                    WidthPixels |-> 0, IsIFrame |-> 1],
     packing |-> "null", packingFrees |-> 0,
     output |-> "null", outputFrees |-> 0,
     overflowReads |-> 0, packingBytes |-> 0]

\* The code at label ReturnResult of ZPNG_DecompressVideo.  output is
\* "codec" exactly when imageData.Buffer.Data points to it.
DecodeReturnResult(r, path) ==
    [r EXCEPT !.path = path,
              !.outputFrees = IF (Len(r.imageData.Buffer.Data) = 0)
                                 # (r.output = "null")
                              THEN @ + 1 ELSE @,
              !.packingFrees = IF r.packing = "live" THEN @ + 1 ELSE @,
              !.packing = IF @ = "live" THEN "freed" ELSE @]

\* buffer: [Data: "null" | "mem", Bytes, header: the bytes at offset 0..7,
\* frame: what follows them].  wild: the byte a read outside the packing
\* allocation yields.
ZPNG_DecompressVideo(refData, buffer, packingAlloc, outputAlloc, wild) ==
    LET r0 == DecodeStart
        magic == LoadU16(buffer.header, 1)
        hdr == [r0.imageData EXCEPT
                  !.IsIFrame = IsIFrameAfterMagic(refData, magic),
                  !.WidthPixels = LoadU16(buffer.header, 3),
                  !.HeightPixels = LoadU16(buffer.header, 5),
                  !.Channels = buffer.header[7],
                  !.BytesPerChannel = buffer.header[8],
                  !.StrideBytes = LoadU16(buffer.header, 3) * buffer.header[7]]
        pixelBytes == PixelBytes(hdr)
        byteCount == ByteCount(hdr)
        cap == byteCount + kPackingSlack
        r1 == [r0 EXCEPT !.imageData = hdr,
                         !.packing = IF packingAlloc THEN "live" ELSE "null",
                         !.packingBytes = cap]
        z == ZSTD_decompress(cap, buffer.frame,
                             buffer.Bytes - ZPNG_HEADER_OVERHEAD_BYTES)
        r2 == [r1 EXCEPT !.output = IF outputAlloc THEN "codec" ELSE "null"]
        u == UnpackDispatch(refData, z.dst, cap, wild, hdr)
        r3 == [r2 EXCEPT !.imageData.Buffer =
                              [Data |-> << MemPrefix(u.out, byteCount) >>,
                               Bytes |-> byteCount],
                         !.overflowReads = u.overflowReads]
    IN  IF buffer.Data = "null" \/ buffer.Bytes < ZPNG_HEADER_OVERHEAD_BYTES
        THEN DecodeReturnResult(r0, "short")
        ELSE IF ~MagicAccepted(refData, magic)
        THEN DecodeReturnResult(r0, "magic")
        ELSE IF r1.packing = "null"
        THEN DecodeReturnResult(r1, "nomem")
        ELSE IF z.isError
        THEN DecodeReturnResult(r1, "entropy")
        ELSE IF r2.output = "null"
        THEN DecodeReturnResult(r2, "nomem")
        ELSE DecodeReturnResult(r3, "ok")


(***************************************************************************)
(* Bounds of the model and the inputs it draws                             *)
(***************************************************************************)
MaxDim == 2
MaxChannels == 9
BayerDepth == 9
BigHalfWidth == 18
BigHalfHeight == 14

Descriptor(w, h, c, b, data) ==
    [WidthPixels |-> w, HeightPixels |-> h, Channels |-> c,
     BytesPerChannel |-> b, Data |-> data]

\* Shapes <<width, height, channels, bytes per channel>>.  A descriptor
\* carrying the Bayer sentinel has even width and height.
SmallShapes ==
    { s \in (1..MaxDim) \X (1..MaxDim) \X (1..MaxChannels) \X {1, 2, BayerDepth} :
        s[4] > 8 => (s[1] % 2 = 0 /\ s[2] % 2 = 0) }

\* Shapes large enough for the inter filter to saturate.
BigShapes ==
    { << 2 * BigHalfWidth, 2 * BigHalfHeight, 1, 1 >>,
      << 2 * BigHalfWidth, 2 * BigHalfHeight, 1, BayerDepth >> }

ShapeBytes(s) == (IF s[4] > 8 THEN s[3] ELSE s[3] * s[4]) * s[1] * s[2]

\* Pixel contents: byte k is (a + m * k) mod 256 ...
Ramp(n, a, m) == [k \in 1..n |-> (a + m * k) % 256]

\* ... or hi for the first t bytes and lo after them.
Step(n, t, hi, lo) == [k \in 1..n |-> IF k <= t THEN hi ELSE lo]

SmallPixels(n) == { Ramp(n, 66, 0), Ramp(n, 250, 37), Ramp(n, 3, 128) }

SmallRefPixels(n) == { Ramp(n, 63, 0), Ramp(n, 250, 37), Ramp(n, 133, 127) }

BigPixels(n) ==
    { Step(n, t, 200, 3) : t \in {kOverflowLimit - 1, kOverflowLimit,
                                  kOverflowLimit + 1} }

Images ==
    UNION { { Descriptor(s[1], s[2], s[3], s[4], px) :
                px \in SmallPixels(ShapeBytes(s)) } : s \in SmallShapes }
    \cup UNION { { Descriptor(s[1], s[2], s[3], s[4], px) :
                     px \in BigPixels(ShapeBytes(s)) } : s \in BigShapes }

IsBig(d) == d.WidthPixels > MaxDim

\* Reference frames of the shape of d.
References(d) ==
    IF IsBig(d)
    THEN { [d EXCEPT !.Data = Ramp(ByteCount(d), 0, 0)] }
    ELSE { [d EXCEPT !.Data = px] : px \in SmallRefPixels(ByteCount(d)) }

\* Output buffers a caller passes to ZPNG_CompressToBuffer: too small by
\* one byte for the capacity test, just large enough for it, and of the
\* size ZPNG_MaximumBufferSize asks for.
CallerBuffers(d) ==
    { [Data |-> "caller", Bytes |-> b] :
        b \in { ZPNG_HEADER_OVERHEAD_BYTES + ZSTD_compressBound(ByteCount(d)) - 1,
                ZPNG_HEADER_OVERHEAD_BYTES + ZSTD_compressBound(ByteCount(d)),
                ZPNG_MaximumBufferSize(d) } }

NoBuffer == [Data |-> "null", Bytes |-> 0]

NoImage == Descriptor(0, 0, 0, 0, << >>)

(***************************************************************************)
(* State                                                                   *)
(***************************************************************************)
VARIABLES
    pc,           \* "idle" | "encoded" | "decoded"
    api,          \* the entry point of the last call
    imageData,    \* the descriptor passed to the encoder
    refData,      \* the reference passed to the encoder (pointer)
    bufferIn,     \* *bufferOutput as the caller passed it
    enc,          \* outcome of the encode call
    buffer,       \* the buffer passed to the decoder
    decRef,       \* the reference passed to the decoder (pointer)
    dec           \* outcome of the decode call

vars == << pc, api, imageData, refData, bufferIn, enc, buffer, decRef, dec >>

NoCompressed == [Data |-> "null", Bytes |-> 0, header |-> << >>, frame |-> << >>]

Init ==
    /\ pc = "idle"
    /\ api = "none"
    /\ imageData = NoImage
    /\ refData = << >>
    /\ bufferIn = NoBuffer
    /\ enc = EncodeStart(NoBuffer, << >>)
    /\ buffer = NoCompressed
    /\ decRef = << >>
    /\ dec = DecodeStart

(***************************************************************************)
(* Encode calls                                                            *)
(***************************************************************************)
\* What the two calloc calls of a call do: both succeed, the first fails
\* (the second is then not reached), or the second fails.
AllocOutcomes == { << TRUE, TRUE >>, << FALSE, TRUE >>, << TRUE, FALSE >> }

Encode(name, ref, d, out, context, dictionary) ==
    /\ pc = "idle"
    /\ \E alloc \in AllocOutcomes, incompressible \in BOOLEAN :
          enc' = ZPNG_CompressVideoToBuffer(ref, d, out, context, dictionary,
                                            alloc[1], alloc[2], incompressible)
    /\ pc' = "encoded"
    /\ api' = name
    /\ imageData' = d
    /\ refData' = ref
    /\ bufferIn' = out
    /\ UNCHANGED << buffer, decRef, dec >>

\* ZPNG_Compress(imageData, context, dictionary), without a context
Compress ==
    \E d \in Images :
        Encode("ZPNG_Compress", << >>, d, NoBuffer, FALSE, << >>)

\* ZPNG_CompressToBuffer(imageData, bufferOutput, context, dictionary),
\* with a context and an empty dictionary slot
CompressToBuffer ==
    \E d \in Images : \E out \in CallerBuffers(d) \cup {NoBuffer} :
        Encode("ZPNG_CompressToBuffer", << >>, d, out, TRUE, << >>)

\* ZPNG_CompressVideoToBuffer(refData, imageData, bufferOutput, context,
\* dictionary), with a context and a dictionary trained before
CompressVideoToBuffer ==
    \E d \in Images : \E ref \in References(d) :
    \E out \in CallerBuffers(d) \cup {NoBuffer} :
        Encode("ZPNG_CompressVideoToBuffer", << ref >>, d, out, TRUE,
               << "cdict" >>)


(***************************************************************************)
(* Decode calls                                                            *)
(***************************************************************************)
WildBytes == {0, 255}

Decode(name, ref, buf) ==
    /\ \E alloc \in AllocOutcomes, wild \in WildBytes :
          dec' = ZPNG_DecompressVideo(ref, buf, alloc[1], alloc[2], wild)
    /\ pc' = "decoded"
    /\ api' = name
    /\ buffer' = buf
    /\ decRef' = ref
    /\ UNCHANGED << imageData, refData, bufferIn, enc >>

\* The buffer a successful encode handed back.
Produced ==
    [Data |-> "mem", Bytes |-> enc.bufferOutput.Bytes,
     header |-> enc.header, frame |-> enc.frame]

\* ZPNG_Decompress(buffer) on the output of the encoder
Decompress ==
    /\ pc = "encoded" /\ enc.path = "ok"
    /\ Decode("ZPNG_Decompress", << >>, Produced)

\* ZPNG_DecompressVideo(refData, buffer) on the output of the encoder, with
\* the reference the encoder had, or any reference for an intra encode.
DecompressVideo ==
    /\ pc = "encoded" /\ enc.path = "ok"
    /\ \E ref \in (IF Len(refData) > 0 THEN {refData[1]}
                   ELSE References(imageData)) :
          Decode("ZPNG_DecompressVideo", << ref >>, Produced)

\* Buffers that do not come from the encoder: a null or short buffer, and
\* headers of every kind of magic and shape in front of a frame that is
\* malformed, regenerates fewer bytes than the image has, exactly as many
\* (all of them the escape byte), or more than the packing memory holds.
ForeignMagics == {ZPNG_HEADER_MAGIC, ZPNG_VIDEO_HEADER_MAGIC, 0, 63740}

ForeignShapes ==
    { << 1, 1, 1, 1 >>, << 2, 2, 1, BayerDepth >>, << 1, 1, MaxChannels, 1 >>,
      << 2, 1, 5, 2 >>, << 2 * BigHalfWidth, 2 * BigHalfHeight, 1, 1 >> }

ForeignFrames(n) ==
    { << >>,
      << [size |-> 1, content |-> << >>] >>,
      << [size |-> 1, content |-> Ramp(n, kEscape, 0)] >>,
      << [size |-> 1, content |-> Ramp(n + kPackingSlack + 1, 7, 0)] >> }

ForeignBuffers ==
    { [NoCompressed EXCEPT !.Bytes = 100],
      [Data |-> "mem", Bytes |-> 7, header |-> StoreU16(ZPNG_HEADER_MAGIC),
       frame |-> << >>] }
    \cup UNION { { [Data |-> "mem", Bytes |-> ZPNG_HEADER_OVERHEAD_BYTES + 1,
                    header |-> WriteHeader(m, Descriptor(s[1], s[2], s[3], s[4], << >>)),
                    frame |-> f] :
                   m \in ForeignMagics, f \in ForeignFrames(ShapeBytes(s)) } :
                 s \in ForeignShapes }

HeaderShape(buf) ==
    Descriptor(LoadU16(buf.header, 3), LoadU16(buf.header, 5),
               buf.header[7], buf.header[8], << >>)

\* ZPNG_Decompress(buffer) on a buffer of the caller's making
DecompressForeign ==
    /\ pc = "idle"
    /\ \E buf \in ForeignBuffers : Decode("ZPNG_Decompress", << >>, buf)

\* ZPNG_DecompressVideo(refData, buffer) on a buffer of the caller's making
DecompressVideoForeign ==
    /\ pc = "idle"
    /\ \E buf \in ForeignBuffers :
          LET n == IF Len(buf.header) = 8 THEN ByteCount(HeaderShape(buf)) ELSE 0
          IN  Decode("ZPNG_DecompressVideo",
                     << [NoImage EXCEPT !.Data = Ramp(n, 5, 0)] >>, buf)

Next ==
    \/ Compress
    \/ CompressToBuffer
    \/ CompressVideoToBuffer
    \/ Decompress
    \/ DecompressVideo
    \/ DecompressForeign
    \/ DecompressVideoForeign

Spec == Init /\ [][Next]_vars


(***************************************************************************)
(* Properties                                                              *)
(***************************************************************************)
\* The header fields of the buffer handed to the decoder.
BufferMagic == LoadU16(buffer.header, 1)

HasHeader == buffer.Data # "null" /\ buffer.Bytes >= ZPNG_HEADER_OVERHEAD_BYTES

\* The decoder was run on the output of a successful encode and did not
\* fail for lack of memory.
RoundTripDone ==
    pc = "decoded" /\ enc.path = "ok" /\ dec.path # "nomem"

SameShape(a, b) ==
    /\ a.WidthPixels = b.WidthPixels
    /\ a.HeightPixels = b.HeightPixels
    /\ a.Channels = b.Channels
    /\ a.BytesPerChannel = b.BytesPerChannel

DecodedEqualsInput ==
    /\ dec.path = "ok"
    /\ SameShape(dec.imageData, imageData)
    /\ dec.imageData.Buffer.Data = << imageData.Data >>

\* C1: intra round trip.  Decoding, without a reference, the output of an
\* encode made without a reference returns the shape and the pixel bytes of
\* the encoded descriptor, for every shape with pixel_bytes in 1..8 (the
\* Bayer shapes of the model have even width and height).
C1_IntraRoundTrip ==
    (RoundTripDone /\ Len(refData) = 0 /\ Len(decRef) = 0)
        => DecodedEqualsInput

\* C2: video round trip.  Decoding, with the reference the encoder had, the
\* output of an encode made with a reference returns the pixel bytes of the
\* current frame, whatever the number of out-of-range deltas.
C2_VideoRoundTrip ==
    (RoundTripDone /\ Len(refData) > 0 /\ decRef = refData)
        => (dec.path = "ok" /\ dec.imageData.Buffer.Data = << imageData.Data >>)

\* C3: transparent intra fallback.  When the inter filter returned -1 the
\* buffer carries the intra magic, and decoding it with the reference
\* succeeds, returns the pixel bytes of the current frame and IsIFrame = 1,
\* for every shape the inter filter accepts.
C3_FallbackTransparent ==
    (RoundTripDone /\ Len(refData) > 0 /\ decRef = refData
       /\ enc.overflowCount = -1)
        => /\ BufferMagic = ZPNG_HEADER_MAGIC
           /\ DecodedEqualsInput
           /\ dec.imageData.IsIFrame = 1

\* C4: magic discipline.  A decode of a buffer that has a header goes past
\* the magic test exactly when the magic is the intra magic, or it is the
\* video magic and a reference was passed; without a reference every other
\* magic is rejected with a null buffer; and a successful decode has
\* IsIFrame = 0 exactly when the magic is the video magic.
C4_MagicDiscipline ==
    (pc = "decoded" /\ HasHeader)
        => /\ (dec.path # "magic")
                <=> (\/ BufferMagic = ZPNG_HEADER_MAGIC
                     \/ (BufferMagic = ZPNG_VIDEO_HEADER_MAGIC /\ Len(decRef) > 0))
           /\ (Len(decRef) = 0 /\ BufferMagic # ZPNG_HEADER_MAGIC)
                => (dec.path = "magic" /\ dec.imageData.Buffer.Data = << >>)
           /\ (dec.path = "ok")
                => ((dec.imageData.IsIFrame = 0)
                        <=> (BufferMagic = ZPNG_VIDEO_HEADER_MAGIC))

\* C4 witness: ZPNG_Decompress was handed an inter frame made by the
\* encoder and rejected it at the magic test.
C4_Witness ==
    /\ pc = "decoded" /\ enc.path = "ok" /\ Len(decRef) = 0
    /\ BufferMagic = ZPNG_VIDEO_HEADER_MAGIC
    /\ dec.path = "magic"

C6_TooSmallRejected ==
    (pc # "idle" /\ enc.path # "start"
       /\ bufferIn.Bytes > 0
       /\ bufferIn.Bytes < ZPNG_MaximumBufferSize(imageData))
        => /\ enc.path # "ok"
           /\ enc.ret = 0
           /\ enc.header = << >>
           /\ enc.bufferOutput = bufferIn

\* C7: decode failure result.  On every failing path of the decoder the
\* returned descriptor is zeroed (null buffer, 0 bytes, 0 width, height,
\* channels and bytes per channel), and a header whose pixel_bytes exceeds
\* 8 never yields a non-null pixel buffer.
C7_DecodeFailureZeroed ==
    (pc = "decoded")
        => /\ (dec.path # "ok")
                => /\ dec.imageData.Buffer = [Data |-> << >>, Bytes |-> 0]
                   /\ dec.imageData.WidthPixels = 0
                   /\ dec.imageData.HeightPixels = 0
                   /\ dec.imageData.Channels = 0
                   /\ dec.imageData.BytesPerChannel = 0
           /\ (HasHeader /\ PixelBytes(HeaderShape(buffer)) > kMaxPixelBytes)
                => dec.imageData.Buffer.Data = << >>

\* C8: encode status.  The value returned by the encoder is 0 on every
\* failing path and non-zero on a successful encode.
C8_EncodeStatus ==
    (pc = "encoded") => ((enc.ret # 0) <=> (enc.path = "ok"))

\* The header of a successful encode: 8 bytes, 16 bit fields low byte
\* first, video magic exactly when a reference was passed and the inter
\* filter returned a count >= 0.
HeaderLayout ==
    LET magic == IF Len(refData) > 0 /\ enc.overflowCount >= 0
                 THEN ZPNG_VIDEO_HEADER_MAGIC ELSE ZPNG_HEADER_MAGIC
    IN  /\ Len(enc.header) = ZPNG_HEADER_OVERHEAD_BYTES
        /\ enc.header[1] = magic % 256
        /\ enc.header[2] = magic \div 256
        /\ enc.header[3] = imageData.WidthPixels % 256
        /\ enc.header[4] = imageData.WidthPixels \div 256
        /\ enc.header[5] = imageData.HeightPixels % 256
        /\ enc.header[6] = imageData.HeightPixels \div 256
        /\ enc.header[7] = imageData.Channels
        /\ enc.header[8] = imageData.BytesPerChannel

\* The 1x1 single channel 8 bit image [0x42] was encoded without reference.
GrayPixelEncoded ==
    /\ pc = "encoded" /\ enc.path = "ok" /\ Len(refData) = 0
    /\ imageData = Descriptor(1, 1, 1, 1, << 66 >>)

\* C9 as stated: header layout and magic as above, and for the gray pixel
\* the filtered byte is 0x42 and the header is FB F8 01 00 01 00 01 01.
C9_HeaderBytesAsStated ==
    /\ (pc = "encoded" /\ enc.path = "ok") => HeaderLayout
    /\ GrayPixelEncoded
         => /\ enc.frame[1].content = << 66 >>
            /\ enc.header = << 251, 248, 1, 0, 1, 0, 1, 1 >>

\* C9 amended: header layout and magic as above, and for the gray pixel
\* the filtered byte is 0x42 and the header is F8 FB 01 00 01 00 01 01
\* (the magic 0xFBF8 low byte first).
C9_HeaderBytes ==
    /\ (pc = "encoded" /\ enc.path = "ok") => HeaderLayout
    /\ GrayPixelEncoded
         => /\ enc.frame[1].content = << 66 >>
            /\ enc.header = << 248, 251, 1, 0, 1, 0, 1, 1 >>

\* C9 witness: the gray pixel was encoded and its header written.
C9_Witness == GrayPixelEncoded /\ Len(enc.header) = ZPNG_HEADER_OVERHEAD_BYTES

\* C10: resource discipline.  After every call the packing memory the
\* call allocated has been released exactly once; an output buffer the
\* codec allocated is released on an error path and kept on success; a
\* caller's output buffer is never released.
C10_ResourceDiscipline ==
    /\ (pc # "idle" /\ enc.path # "start")
         => /\ enc.packing # "live"
            /\ enc.packingFrees = (IF enc.packing = "freed" THEN 1 ELSE 0)
            /\ enc.outputFrees = (IF enc.output = "codec" /\ enc.path # "ok"
                                  THEN 1 ELSE 0)
    /\ (pc = "decoded")
         => /\ dec.packing # "live"
            /\ dec.packingFrees = (IF dec.packing = "freed" THEN 1 ELSE 0)
            /\ dec.outputFrees = (IF dec.output = "codec" /\ dec.path # "ok"
                                  THEN 1 ELSE 0)


(***************************************************************************)
(* The inter filter as seen from the encode call                           *)
(***************************************************************************)
\* An encode call has just returned that ran the inter filter: a reference
\* was passed and the call got as far as the entropy coder.
InterFilterRan ==
    pc = "encoded" /\ Len(refData) > 0 /\ enc.path \in {"ok", "entropy"}

\* The flat offsets (1-based) whose channel delta current - reference lies
\* outside -127..127.
OutOfRange ==
    { k \in 1..ByteCount(imageData) :
        LET diff == imageData.Data[k] - refData[1].Data[k]
        IN  diff > 127 \/ diff < -127 }

\* The packed bytes handed to the entropy coder by a successful encode.
PackedBytes == enc.frame[1].content

\* The packed bytes start with the Bayer encoding of the current frame.
StartsWithBayerEncoding ==
    LET xggy == PackAndFilterXGGY(imageData)
    IN  /\ Len(PackedBytes) >= Len(xggy)
        /\ SubSeq(PackedBytes, 1, Len(xggy)) = xggy

InterFrameMade ==
    InterFilterRan /\ enc.path = "ok" /\ enc.overflowCount >= 0

\* The offset of the overflow region: width * height * channels, channels
\* being the channel constant the inter filter is dispatched with, which is
\* pixel_bytes.
MainRegionBytes ==
    imageData.WidthPixels * imageData.HeightPixels * PixelBytes(imageData)

Delta(k) == imageData.Data[k] - refData[1].Data[k]

\* The offsets of the out-of-range deltas in scan order.
EscapedOffsets ==
    SelectSeq([k \in 1..MainRegionBytes |-> k],
              LAMBDA k : Delta(k) > 127 \/ Delta(k) < -127)

OverflowWritesInBounds ==
    (pc = "encoded" /\ enc.path \in {"ok", "entropy"})
        => ByteCount(imageData) + enc.overflowWrites <= enc.packingBytes

\* Every read the inverse inter filter made from the overflow region was
\* inside the packing allocation: the i-th read is at offset
\* byteCount + i - 1.
OverflowReadsInBounds ==
    (pc = "decoded" /\ dec.path = "ok")
        => ByteCount(dec.imageData) + dec.overflowReads <= dec.packingBytes

\* C13: overflow-region accesses stay inside the scratch buffer.  Every
\* store of PackAndFilterVideo to the overflow region and every read of
\* UnpackAndUnfilterVideo from it is at an offset below byteCount + 1000,
\* the size of the packing allocation, for every payload that passes the
\* header and entropy-decode tests, made by the encoder or not.
C13_OverflowAccessInBounds ==
    OverflowWritesInBounds /\ OverflowReadsInBounds


\* The entropy coder was called by the encode call that has just returned.
EntropyCoderCalled ==
    pc = "encoded" /\ enc.path \in {"ok", "entropy"}

\* C14: entropy-coder destination capacity.  On every encode the capacity
\* handed to the entropy coder, which is also the size of an output buffer
\* the codec allocates less the 8 header bytes, is at least the upper bound
\* of the compressed size of the source handed to it, byteCount +
\* max(overflowCount, 0) bytes long, so that the entropy coder never fails
\* for lack of room in the destination.
C14_DestinationCapacity ==
    EntropyCoderCalled
        => /\ enc.srcSize = ByteCount(imageData)
                + (IF enc.overflowCount > 0 THEN enc.overflowCount ELSE 0)
           /\ enc.dstCapacity >= ZSTD_compressBound(enc.srcSize)
           /\ enc.path = "ok"

====
